---- MODULE Spec2Model ----
(***************************************************************************)
(* A model of FS.File (src/fsFile-common.js): the file handle `self`, the  *)
(* registry FS._collections with the files of its one registered            *)
(* collection, the ambient flags Meteor.isServer and Deps.active, and the   *)
(* asynchronous requests in flight (Meteor.call '_cfs_getUrlInfo',          *)
(* collection.files.remove).                                                *)
(*                                                                          *)
(* A JavaScript value that may be undefined is a sequence of length 0 or 1: *)
(* undefined is <<>>, the value v is <<v>>.  A deleted or never assigned    *)
(* property is undefined.                                                   *)
(***************************************************************************)
EXTENDS Integers, Sequences, FiniteSets, TLC

VARIABLES
  self,        \* the FS.File instance: a record of its properties
  files,       \* FS._collections["images"].files : id -> record or undefined
  isServer,    \* Meteor.isServer (Meteor.isClient is its negation)
  DepsActive,  \* Deps.active
  pending,     \* the asynchronous requests whose callback has not run yet
  calls,       \* per started call: the operation and its callback invocations
  ev,          \* what the last handler did, in order: the handler, then the
               \* collaborator calls and callback invocations it made
  ret          \* the value the last handler returned

vars == <<self, files, isServer, DepsActive, pending, calls, ev, ret>>

-----------------------------------------------------------------------------
(* Bounds *)

\* how many attachData / remove calls one behaviour starts
MaxCalls == 2
\* the largest chunkSum of a stored record the accessors are applied to
MaxChunks == 8

-----------------------------------------------------------------------------
(* JavaScript values *)

undefined == <<>>
Some(v) == <<v>>
Val(o) == o[1]
\* truthiness of a possibly undefined string, object or reference
Truthy(o) == o # undefined

Registered == {"images"}
CollectionNames == {"images", "ghost"}
Ids == {"f1", "f2"}
StoreNames == {"thumb", "orig"}

NotMountedError == "Cannot remove a file that is not associated with a collection"
StoreErrors == {"E_STORE"}
UrlErrors == {"E_HEAD"}

\* the properties of a file record, as merged by _.extend(self, fileRecord)
RecordFields == {"_id", "name", "size", "type", "utime", "chunkCount", "chunkSum", "copies"}

\* FS._collections[name]
Collections(name) == IF name \in Registered THEN Some(name) ELSE undefined

\* one entry of the copies map: {} has neither key nor type
EmptyEntry == [key |-> undefined, type |-> undefined]
JpegEntry == [key |-> Some("k1"), type |-> Some("image/jpeg")]

\* _.isEmpty of a possibly undefined copies map
isEmptyMap(c) == c = undefined \/ DOMAIN Val(c) = {}
\* _.isEmpty of copies[storeName], copies being defined
isEmptyEntry(c, storeName) ==
  \/ storeName \notin DOMAIN Val(c)
  \/ Val(c)[storeName] = EmptyEntry

\* a slip: _.extend assigning every record property, those src lacks too
extend_AssignsAll(dst, src) ==
  [f \in DOMAIN dst |-> IF f \in DOMAIN src /\ f \in RecordFields THEN src[f] ELSE dst[f]]

\* _.extend(dst, src) for a record src: every property src has is assigned
extend(dst, src) ==
  [f \in DOMAIN dst |->
     IF f \in DOMAIN src /\ f \in RecordFields /\ src[f] # undefined
     THEN src[f] ELSE dst[f]]

\* an event of ev
Event(k, call, coll, x) == [k |-> k, call |-> call, coll |-> coll, x |-> x]

-----------------------------------------------------------------------------
\* a slip: trusting a transform-created handle outside a reactive computation
controlledByDeps_IgnoresDeps(s, deps) == s.createdByTransform

(* FS.File.prototype.controlledByDeps *)
controlledByDeps(s, deps) == s.createdByTransform /\ deps

(* FS.File.prototype.getCollection (= isMounted): the handle after the call *)
(* (the link is cached in self.collection) and the value returned           *)
getCollection(s) ==
  IF Truthy(s.collection) THEN [self |-> s, ret |-> s.collection]
  ELSE IF ~Truthy(s.collectionName) THEN [self |-> s, ret |-> undefined]
  ELSE LET c == Collections(Val(s.collectionName))
       IN [self |-> [s EXCEPT !.collection = c], ret |-> c]

isMounted(s) == getCollection(s)

\* collection.files.findOne({_id: id}) of the registered collection
findOne(fs, id) == IF id # undefined /\ Val(id) \in DOMAIN fs THEN fs[Val(id)] ELSE undefined

\* the empty object {}: no record property is defined
EmptyObject == [f \in RecordFields |-> undefined]

(* FS.File.prototype.getFileRecord: the handle after the call, the object  *)
(* returned (its record properties), whether that object is self itself,    *)
(* and the queries issued                                                    *)
getFileRecord(s, deps, fs) ==
  IF controlledByDeps(s, deps)
  THEN [self |-> s, rec |-> [f \in RecordFields |-> s[f]], isSelf |-> TRUE, ev |-> <<>>]
  ELSE LET m == isMounted(s) IN
       IF Truthy(m.ret)
       THEN LET found == findOne(fs, m.self._id)
                fileRecord == IF found # undefined THEN Val(found) ELSE EmptyObject
            IN [self |-> extend(m.self, fileRecord),
                rec |-> fileRecord, isSelf |-> FALSE,
                ev |-> <<Event("findOne", 0, m.ret, m.self._id)>>]
       ELSE [self |-> m.self, rec |-> EmptyObject, isSelf |-> FALSE, ev |-> <<>>]

-----------------------------------------------------------------------------
(* attachData *)

HTTP == <<"h", "t", "t", "p", ":">>
HTTPS == <<"h", "t", "t", "p", "s", ":">>
\* String.prototype.slice(0, n)
slice0(str, n) == SubSeq(str, 1, IF Len(str) < n THEN Len(str) ELSE n)

\* the inputs of attachData: a browser File, a browser Blob, strings
DataFile == [tag |-> "file", kind |-> "File", str |-> <<>>,
             name |-> Some(<<"P", ".", "n">>), type |-> Some("image/png"), size |-> Some(1)]
DataBlob == [tag |-> "blob", kind |-> "Blob", str |-> <<>>,
             name |-> undefined, type |-> Some("video/mp4"), size |-> Some(2)]
DataHttp == [tag |-> "http", kind |-> "string", str |-> HTTP \o <<"/">>,
             name |-> undefined, type |-> undefined, size |-> undefined]
DataHttps == [tag |-> "https", kind |-> "string", str |-> HTTPS \o <<"/">>,
              name |-> undefined, type |-> undefined, size |-> undefined]
DataText == [tag |-> "text", kind |-> "string", str |-> <<"h", "t", "t", "p">>,
             name |-> undefined, type |-> undefined, size |-> undefined]
\* File and Blob exist in the browser only
DataSources(server) ==
  {DataHttp, DataHttps, DataText} \cup (IF server THEN {} ELSE {DataFile, DataBlob})
OptionTypes == {undefined, Some("audio/mp3")}
\* what the '_cfs_getUrlInfo' method answers
UrlInfos == {[type |-> Some("image/gif"), size |-> Some(3)]}

\* new FS.Data(data, type): the payload keeps its source and the type given
FSData(data, type) == [src |-> data.tag, type |-> type]

isUrl(data) ==
  data.kind = "string" /\ (slice0(data.str, 5) = HTTP \/ slice0(data.str, 6) = HTTPS)

\* a slip: the payload installed without the handle's type being set from it
setData_KeepsType(s, data, type, c) ==
  [self |-> [s EXCEPT !.data = Some(FSData(data, type))],
   ev |-> <<Event("callback", c, undefined, undefined)>>]

(* function setData(type) of attachData *)
setData(s, data, type, c) ==
  LET d == FSData(data, type) IN
  [self |-> [s EXCEPT !.data = Some(d), !.type = d.type],
   ev |-> <<Event("callback", c, undefined, undefined)>>]

(* FS.File.prototype.attachData, up to its return *)
attachData(s, data, optType, c, server) ==
  IF ~server /\ data.kind = "File"
  THEN setData([s EXCEPT !.name = data.name, !.utime = Some("lastModifiedDate"),
                         !.size = data.size], data, data.type, c)
  ELSE IF ~server /\ data.kind = "Blob"
  THEN setData([s EXCEPT !.utime = Some("now"), !.size = data.size], data, data.type, c)
  ELSE IF isUrl(data)
  THEN [self |-> s, ev |-> <<Event("Meteor.call", c, undefined, Some(data.tag))>>]
  ELSE setData(s, data, optType, c)

\* a slip: the error branch returning without calling back
urlInfoCallback_SilentOnError(s, data, c, error, result) ==
  IF error # undefined
  THEN [self |-> s, ev |-> <<>>]
  ELSE LET s2 == extend(s, result) IN setData(s2, data, s2.type, c)

\* a slip: merging the result before looking at the error
urlInfoCallback_MergesFirst(s, data, c, error, result) ==
  LET s2 == extend(s, result) IN
  IF error # undefined
  THEN [self |-> s2, ev |-> <<Event("callback", c, undefined, error)>>]
  ELSE setData(s2, data, s2.type, c)

(* the callback attachData hands to Meteor.call('_cfs_getUrlInfo', ...) *)
urlInfoCallback(s, data, c, error, result) ==
  IF error # undefined
  THEN [self |-> s, ev |-> <<Event("callback", c, undefined, error)>>]
  ELSE LET s2 == extend(s, result) IN setData(s2, data, s2.type, c)

-----------------------------------------------------------------------------
(* remove *)

\* a slip: the temporary chunks deleted after the request is issued, not before
remove_DeletesChunksLate(s, server, c) ==
  LET m == getCollection(s)
      temp == IF server THEN <<Event("deleteChunks", c, undefined, s._id)>> ELSE <<>>
  IN IF Truthy(m.ret)
     THEN [self |-> m.self,
           ev |-> <<Event("files.remove", c, m.ret, m.self._id)>> \o temp]
     ELSE [self |-> m.self,
           ev |-> temp \o <<Event("callback", c, undefined, Some(NotMountedError))>>]

(* FS.File.prototype.remove, up to its return *)
remove(s, server, c) ==
  LET m == isMounted(s)
      temp == IF server THEN <<Event("deleteChunks", c, undefined, s._id)>> ELSE <<>>
  IN IF Truthy(m.ret)
     THEN [self |-> m.self,
           ev |-> temp \o <<Event("files.remove", c, m.ret, m.self._id)>>]
     ELSE [self |-> m.self,
           ev |-> temp \o <<Event("callback", c, undefined, Some(NotMountedError))>>]

\* a slip: the properties deleted whatever the store answered
removeCallback_ClearsOnError(s, c, err) ==
  [self |-> [s EXCEPT !._id = undefined, !.binary = undefined,
                      !.collection = undefined, !.collectionName = undefined],
   ev |-> <<Event("callback", c, undefined, err)>>]

\* a slip: collectionName left on the handle after a successful removal
removeCallback_KeepsCollectionName(s, c, err) ==
  [self |-> IF err = undefined
            THEN [s EXCEPT !._id = undefined, !.binary = undefined,
                           !.collection = undefined]
            ELSE s,
   ev |-> <<Event("callback", c, undefined, err)>>]

(* the callback remove hands to collection.files.remove *)
removeCallback(s, c, err) ==
  [self |-> IF err = undefined
            THEN [s EXCEPT !._id = undefined, !.binary = undefined,
                           !.collection = undefined, !.collectionName = undefined]
            ELSE s,
   ev |-> <<Event("callback", c, undefined, err)>>]

-----------------------------------------------------------------------------
(* update *)

\* the modifiers callers pass: {$set: {type: 'image/png'}}, {$set: {chunkCount: 1}}
Modifiers ==
  {[field |-> "type", value |-> Some("image/png")],
   [field |-> "chunkCount", value |-> Some(1)]}

\* what collection.files.update does to a record it matches
applyModifier(rec, modifier) == [rec EXCEPT ![modifier.field] = modifier.value]

(* FS.File.prototype.update, up to its return: nothing when not mounted *)
update(s, c) ==
  LET m == isMounted(s)
  IN IF Truthy(m.ret)
     THEN [self |-> m.self, ev |-> <<Event("files.update", c, m.ret, m.self._id)>>]
     ELSE [self |-> m.self, ev |-> <<>>]

\* a slip: the caller's callback left out when the store reports an error
updateCallback_SilentOnError(s, deps, fs, server, c, err, count, hasCallback) ==
  LET r == IF count > 0 /\ ~server THEN getFileRecord(s, deps, fs)
           ELSE [self |-> s, ev |-> <<>>]
  IN [self |-> r.self,
      ev |-> r.ev
             \o (IF hasCallback /\ err = undefined
                 THEN <<Event("callback", c, undefined, err)>> ELSE <<>>)]

\* a slip: the caller's callback invoked before the record is pulled
updateCallback_CallsBackFirst(s, deps, fs, server, c, err, count, hasCallback) ==
  LET r == IF count > 0 /\ ~server THEN getFileRecord(s, deps, fs)
           ELSE [self |-> s, ev |-> <<>>]
  IN [self |-> r.self,
      ev |-> (IF hasCallback THEN <<Event("callback", c, undefined, err)>> ELSE <<>>)
             \o r.ev]

(* the callback update hands to collection.files.update; fs is the store    *)
(* as the update left it, hasCallback is typeof callback === 'function'     *)
updateCallback(s, deps, fs, server, c, err, count, hasCallback) ==
  LET r == IF count > 0 /\ ~server THEN getFileRecord(s, deps, fs)
           ELSE [self |-> s, ev |-> <<>>]
  IN [self |-> r.self,
      ev |-> r.ev
             \o (IF hasCallback THEN <<Event("callback", c, undefined, err)>> ELSE <<>>)]

-----------------------------------------------------------------------------
(* The accessors *)

\* a JavaScript number: an integer, NaN or Infinity
Num(kind, n) == [kind |-> kind, n |-> n]

\* chunkCount / chunkSum * 100 as the fraction num / den (den > 0), NaN or
\* Infinity; an undefined operand makes it NaN
progressRatio(chunkCount, chunkSum) ==
  IF chunkCount = undefined \/ chunkSum = undefined THEN [kind |-> "NaN", num |-> 0, den |-> 1]
  ELSE IF Val(chunkSum) = 0
       THEN [kind |-> IF Val(chunkCount) = 0 THEN "NaN" ELSE "Infinity", num |-> 0, den |-> 1]
       ELSE [kind |-> "number", num |-> Val(chunkCount) * 100, den |-> Val(chunkSum)]

\* a slip: Math.floor in place of Math.round
MathRound_Truncates(q) ==
  IF q.kind # "number" THEN Num(q.kind, 0) ELSE Num("number", q.num \div q.den)

\* Math.round of a non-negative fraction: the nearest integer, halves upwards
MathRound(q) ==
  IF q.kind # "number" THEN Num(q.kind, 0)
  ELSE Num("number", (2 * q.num + q.den) \div (2 * q.den))

(* FS.File.prototype.uploadProgress: undefined when not mounted *)
uploadProgress(s, deps, fs) ==
  LET m == isMounted(s) IN
  IF Truthy(m.ret)
  THEN LET r == getFileRecord(m.self, deps, fs)
       IN [self |-> r.self, ev |-> r.ev,
           ret |-> Some(MathRound(progressRatio(r.self.chunkCount, r.self.chunkSum)))]
  ELSE [self |-> m.self, ev |-> <<>>, ret |-> undefined]

(* FS.File.prototype.isUploaded *)
isUploaded(s, deps, fs) ==
  LET r == getFileRecord(s, deps, fs)
  IN [self |-> r.self, ev |-> r.ev, ret |-> (r.self.chunkCount = r.self.chunkSum)]

\* !!optimistic of a possibly omitted boolean argument
BangBang(o) == o # undefined /\ Val(o)

\* a slip: the optimistic answer given for a missing entry too
hasCopy_OptimisticOnMissingEntry(s, deps, fs, storeName, optimistic) ==
  LET r == getFileRecord(s, deps, fs)
      copies == r.self.copies
  IN [self |-> r.self, ev |-> r.ev,
      ret |-> IF isEmptyMap(copies) \/ storeName = undefined
                 \/ isEmptyEntry(copies, Val(storeName))
              THEN BangBang(optimistic)
              ELSE TRUE]

(* FS.File.prototype.hasCopy; storeName is undefined when it is no string *)
hasCopy(s, deps, fs, storeName, optimistic) ==
  LET r == getFileRecord(s, deps, fs)
      copies == r.self.copies
  IN [self |-> r.self, ev |-> r.ev,
      ret |-> IF isEmptyMap(copies) THEN BangBang(optimistic)
              ELSE IF storeName # undefined
                   THEN Truthy(copies) /\ ~isEmptyEntry(copies, Val(storeName))
                   ELSE FALSE]

-----------------------------------------------------------------------------
(* getExtension, getCopyInfo *)

\* String.prototype.lastIndexOf(ch): the last position (from 0) of ch, or -1
lastIndexOf(str, ch) ==
  LET at == {i \in DOMAIN str : str[i] = ch}
  IN IF at = {} THEN -1 ELSE (CHOOSE i \in at : \A j \in at : j <= i) - 1

\* String.prototype.substr(start), start counted from 0
substr(str, start) == SubSeq(str, start + 1, Len(str))

\* String.prototype.toLowerCase, on the letters the names are written with
lowerChar(ch) ==
  CASE ch = "J" -> "j" [] ch = "P" -> "p" [] ch = "C" -> "c" [] ch = "R" -> "r"
    [] OTHER -> ch
toLowerCase(str) == [i \in DOMAIN str |-> lowerChar(str[i])]

(* FS.File.prototype.getExtension: name.lastIndexOf on an undefined name is *)
(* a TypeError                                                               *)
getExtension(s, deps, fs) ==
  LET r == getFileRecord(s, deps, fs)
      name == r.self.name
  IN IF name = undefined
     THEN [self |-> r.self, ev |-> r.ev, threw |-> TRUE, ret |-> undefined]
     ELSE LET found == lastIndexOf(Val(name), ".") + 1
          IN [self |-> r.self, ev |-> r.ev, threw |-> FALSE,
              ret |-> Some(IF found > 0 THEN toLowerCase(substr(Val(name), found))
                           ELSE <<>>)]

\* a slip: self.copies[storeName] read without the self.copies && guard
getCopyInfo_Unguarded(s, deps, fs, storeName) ==
  LET r == getFileRecord(s, deps, fs)
      copies == r.self.copies
  IN IF copies = undefined
     THEN [self |-> r.self, ev |-> r.ev, threw |-> TRUE, isNull |-> FALSE, ret |-> undefined]
     ELSE IF storeName # undefined /\ Val(storeName) \in DOMAIN Val(copies)
          THEN [self |-> r.self, ev |-> r.ev, threw |-> FALSE, isNull |-> FALSE,
                ret |-> Some(Val(copies)[Val(storeName)])]
          ELSE [self |-> r.self, ev |-> r.ev, threw |-> FALSE, isNull |-> TRUE,
                ret |-> undefined]

(* FS.File.prototype.getCopyInfo: the entry, or null (isNull); an entry is  *)
(* an object and so truthy; a storeName that is no string names no entry     *)
getCopyInfo(s, deps, fs, storeName) ==
  LET r == getFileRecord(s, deps, fs)
      copies == r.self.copies
  IN IF Truthy(copies) /\ storeName # undefined /\ Val(storeName) \in DOMAIN Val(copies)
     THEN [self |-> r.self, ev |-> r.ev, threw |-> FALSE, isNull |-> FALSE,
           ret |-> Some(Val(copies)[Val(storeName)])]
     ELSE [self |-> r.self, ev |-> r.ev, threw |-> FALSE, isNull |-> TRUE,
           ret |-> undefined]

-----------------------------------------------------------------------------
(* isImage, isVideo, isAudio *)

\* a type that is no string (a number put in the record)
NumberType == "#7"
\* typeof type === "string", for a defined type
isString(type) == type # NumberType

\* the characters of the MIME types and prefixes
CharsOf(str) ==
  CASE str = "image/" -> <<"i", "m", "a", "g", "e", "/">>
    [] str = "video/" -> <<"v", "i", "d", "e", "o", "/">>
    [] str = "audio/" -> <<"a", "u", "d", "i", "o", "/">>
    [] str = "image/jpeg" -> <<"i", "m", "a", "g", "e", "/", "j", "p", "e", "g">>
    [] str = "image/png" -> <<"i", "m", "a", "g", "e", "/", "p", "n", "g">>
    [] str = "image/gif" -> <<"i", "m", "a", "g", "e", "/", "g", "i", "f">>
    [] str = "video/mp4" -> <<"v", "i", "d", "e", "o", "/", "m", "p", "4">>
    [] str = "audio/mp3" -> <<"a", "u", "d", "i", "o", "/", "m", "p", "3">>
    [] str = "text/video/" -> <<"t", "e", "x", "t", "/", "v", "i", "d", "e", "o", "/">>

\* String.prototype.indexOf(sub): the first position (from 0) of sub, or -1
indexOf(str, sub) ==
  LET at == {i \in 0..(Len(str) - Len(sub)) : SubSeq(str, i + 1, i + Len(sub)) = sub}
  IN IF at = {} THEN -1 ELSE CHOOSE i \in at : \A j \in at : i <= j

Mp4Entry == [key |-> Some("k2"), type |-> Some("video/mp4")]
\* a copy whose type was not recorded
KeyEntry == [key |-> Some("k3"), type |-> undefined]

\* a slip: the original's type tested although the store has a copy
checkContentType_IgnoresCopy(s, deps, fs, storeName, startOfType) ==
  LET h == IF Truthy(storeName) THEN hasCopy(s, deps, fs, storeName, undefined)
           ELSE [self |-> s, ev |-> <<>>, ret |-> FALSE]
      type == h.self.type
  IN [self |-> h.self, ev |-> h.ev,
      ret |-> IF type # undefined /\ isString(Val(type))
              THEN indexOf(CharsOf(Val(type)), CharsOf(startOfType)) = 0
              ELSE FALSE]

(* function checkContentType(fsFile, storeName, startOfType); without a     *)
(* storeName hasCopy is not called                                           *)
checkContentType(s, deps, fs, storeName, startOfType) ==
  LET h == IF Truthy(storeName) THEN hasCopy(s, deps, fs, storeName, undefined)
           ELSE [self |-> s, ev |-> <<>>, ret |-> FALSE]
      type == IF h.ret THEN Val(h.self.copies)[Val(storeName)].type ELSE h.self.type
  IN [self |-> h.self, ev |-> h.ev,
      ret |-> IF type # undefined /\ isString(Val(type))
              THEN indexOf(CharsOf(Val(type)), CharsOf(startOfType)) = 0
              ELSE FALSE]

(* FS.File.prototype.isImage / isVideo / isAudio; store is options.store *)
isImage(s, deps, fs, store) == checkContentType(s, deps, fs, store, "image/")
isVideo(s, deps, fs, store) == checkContentType(s, deps, fs, store, "video/")
isAudio(s, deps, fs, store) == checkContentType(s, deps, fs, store, "audio/")

-----------------------------------------------------------------------------
(* Plumbing shared by the actions: what a handler's events do to the state *)

\* the requests a handler issued, as entries of pending
Requests(e, data) ==
  {[op |-> e[i].k, call |-> e[i].call, coll |-> e[i].coll, id |-> e[i].x, data |-> data] :
     i \in {j \in DOMAIN e : e[j].k \in {"files.remove", "files.update", "Meteor.call"}}}

\* how often a handler invoked the callback of call c
Callbacks(e, c) == Cardinality({i \in DOMAIN e : e[i].k = "callback" /\ e[i].call = c})

\* the error passed by the last callback event of call c, if any
LastErr(e, c, old) ==
  LET idx == {i \in DOMAIN e : e[i].k = "callback" /\ e[i].call = c}
  IN IF idx = {} THEN old
     ELSE e[CHOOSE i \in idx : \A j \in idx : j <= i].x

Started(op, c, e) == [op |-> op, cbs |-> Callbacks(e, c), err |-> LastErr(e, c, undefined)]
Completed(old, c, e) ==
  [old EXCEPT ![c].cbs = @ + Callbacks(e, c), ![c].err = LastErr(e, c, @)]

NoRet == [op |-> "none", v |-> undefined]

-----------------------------------------------------------------------------
(* Construction *)

\* the properties a handle has when nothing was given for them
Detached ==
  [createdByTransform |-> FALSE, _id |-> undefined, collectionName |-> undefined,
   collection |-> undefined, data |-> undefined, binary |-> undefined,
   name |-> undefined, size |-> undefined, type |-> undefined, utime |-> undefined,
   chunkCount |-> undefined, chunkSum |-> undefined, copies |-> undefined]

\* the record of file "f1" as first inserted: nothing uploaded, no copy
NewRecord ==
  [_id |-> Some("f1"), name |-> Some(<<"c", ".", "J">>), size |-> Some(1),
   type |-> Some("image/jpeg"), utime |-> undefined,
   chunkCount |-> Some(0), chunkSum |-> Some(1), copies |-> undefined]

\* the objects a caller constructs an FS.File from: nothing, or an identifier
\* and a collection name, either of which may be missing or name nothing
Refs ==
  {[Detached EXCEPT !._id = r[1], !.collectionName = r[2]] :
     r \in {<<undefined, undefined>>, <<Some("f1"), Some("images")>>,
            <<Some("f2"), Some("images")>>, <<undefined, Some("images")>>,
            <<Some("f1"), Some("ghost")>>, <<Some("f1"), undefined>>}}

(* FS.File(ref, createdByTransform) for an object ref; for a File or Blob   *)
(* ref the constructor is the detached handle followed by attachData(ref)   *)
FSFile(ref, createdByTransform) == [ref EXCEPT !.createdByTransform = createdByTransform]

\* the handle the collection's transform constructs from the document rec
TransformHandle(rec) ==
  FSFile([extend(Detached, rec) EXCEPT !.collectionName = Some("images")], TRUE)

Init ==
  /\ self \in {FSFile(ref, FALSE) : ref \in Refs} \cup {TransformHandle(NewRecord)}
  /\ files = [i \in Ids |-> IF i = "f1" THEN Some(NewRecord) ELSE undefined]
  /\ isServer \in BOOLEAN
  /\ DepsActive = FALSE
  /\ pending = {}
  /\ calls = <<>>
  /\ ev = <<>>
  /\ ret = NoRet

-----------------------------------------------------------------------------
(* The handle's operations *)

AttachData ==
  /\ Len(calls) < MaxCalls
  /\ \E data \in DataSources(isServer), optType \in OptionTypes :
       LET c == Len(calls) + 1
           r == attachData(self, data, optType, c, isServer)
       IN /\ self' = r.self
          /\ ev' = <<Event("attachData", c, undefined, Some(data.tag))>> \o r.ev
          /\ pending' = pending \cup Requests(r.ev, Some(data))
          /\ calls' = Append(calls, Started("attachData", c, r.ev))
  /\ ret' = NoRet
  /\ UNCHANGED <<files, isServer, DepsActive>>

\* the '_cfs_getUrlInfo' method answers: an error or the URL's metadata
UrlInfoDone ==
  \E req \in pending :
    /\ req.op = "Meteor.call"
    /\ \E error \in {undefined} \cup {Some(x) : x \in UrlErrors}, result \in UrlInfos :
         LET r == urlInfoCallback(self, Val(req.data), req.call, error, result)
         IN /\ self' = r.self
            /\ ev' = <<Event("getUrlInfo.reply", req.call, undefined, error)>> \o r.ev
            /\ pending' = (pending \ {req}) \cup Requests(r.ev, req.data)
            /\ calls' = Completed(calls, req.call, r.ev)
    /\ ret' = NoRet
    /\ UNCHANGED <<files, isServer, DepsActive>>

Remove ==
  /\ Len(calls) < MaxCalls
  /\ LET c == Len(calls) + 1
         r == remove(self, isServer, c)
     IN /\ self' = r.self
        /\ ev' = <<Event("remove", c, undefined, self._id)>> \o r.ev
        /\ pending' = pending \cup Requests(r.ev, undefined)
        /\ calls' = Append(calls, Started("remove", c, r.ev))
  /\ ret' = NoRet
  /\ UNCHANGED <<files, isServer, DepsActive>>

\* the Record Store answers a remove request: an error, or success with the
\* record (if there was one) gone
RemoveDone ==
  \E req \in pending :
    /\ req.op = "files.remove"
    /\ \E err \in {undefined} \cup {Some(x) : x \in StoreErrors} :
         LET r == removeCallback(self, req.call, err)
         IN /\ self' = r.self
            /\ ev' = <<Event("files.remove.reply", req.call, req.coll, err)>> \o r.ev
            /\ pending' = (pending \ {req}) \cup Requests(r.ev, undefined)
            /\ calls' = Completed(calls, req.call, r.ev)
            /\ files' = IF err = undefined /\ req.id # undefined
                        THEN [files EXCEPT ![Val(req.id)] = undefined]
                        ELSE files
    /\ ret' = NoRet
    /\ UNCHANGED <<isServer, DepsActive>>

GetFileRecord ==
  /\ LET r == getFileRecord(self, DepsActive, files)
     IN /\ self' = r.self
        /\ ev' = <<Event("getFileRecord", 0, undefined, self._id)>> \o r.ev
        /\ ret' = [op |-> "getFileRecord", v |-> r.rec, isSelf |-> r.isSelf]
  /\ UNCHANGED <<files, isServer, DepsActive, pending, calls>>

-----------------------------------------------------------------------------
(* The collaborators *)

\* the Upload Transport stores one more chunk of file "f1"
ChunkStored ==
  /\ files["f1"] # undefined
  /\ Val(Val(files["f1"]).chunkCount) < Val(Val(files["f1"]).chunkSum)
  /\ files' = [files EXCEPT !["f1"] =
                 Some([Val(@) EXCEPT !.chunkCount = Some(Val(@) + 1)])]
  /\ ev' = <<Event("chunkStored", 0, undefined, Some("f1"))>>
  /\ ret' = NoRet
  /\ UNCHANGED <<self, isServer, DepsActive, pending, calls>>

\* a storage adapter saves the copy of the uploaded file "f1" in store "thumb"
CopyStored ==
  /\ files["f1"] # undefined
  /\ Val(files["f1"]).chunkCount = Val(files["f1"]).chunkSum
  /\ Val(files["f1"]).copies = undefined
  /\ files' = [files EXCEPT !["f1"] =
                 Some([Val(@) EXCEPT !.copies = Some([s \in {"thumb"} |-> JpegEntry])])]
  /\ ev' = <<Event("copyStored", 0, undefined, Some("f1"))>>
  /\ ret' = NoRet
  /\ UNCHANGED <<self, isServer, DepsActive, pending, calls>>

\* a reactive computation starts or ends
DepsToggle ==
  /\ DepsActive' = ~DepsActive
  /\ ev' = <<Event("Deps", 0, undefined, undefined)>>
  /\ ret' = NoRet
  /\ UNCHANGED <<self, files, isServer, pending, calls>>

Next ==
  \/ AttachData
  \/ UrlInfoDone
  \/ Remove
  \/ RemoveDone
  \/ GetFileRecord
  \/ ChunkStored
  \/ DepsToggle

Spec == Init /\ [][Next]_vars

-----------------------------------------------------------------------------
(* Vocabulary of the properties *)

\* the handler that ran last
Handler(e) == IF e = <<>> THEN "none" ELSE e[1].k
\* the positions of the events of kind k
At(e, k) == {i \in DOMAIN e : e[i].k = k}
Has(e, k) == At(e, k) # {}
\* the events of kind k, as a set
EventsOf(e, k) == {e[i] : i \in At(e, k)}

\* the store a handle refers to: the cached link, else the registered
\* collection its collectionName names
ResolvedStore(s) ==
  IF s.collection # undefined THEN s.collection
  ELSE IF s.collectionName # undefined /\ Val(s.collectionName) \in Registered
       THEN s.collectionName
       ELSE undefined

\* the properties of a handle other than the cached link self.collection
OwnFields == DOMAIN Detached \ {"collection"}

-----------------------------------------------------------------------------
(* remove *)

\* C1: remove() on a handle without _id, whatever its collectionName or
\* cached collection, calls back with the not-mounted error, issues no
\* files.remove request and leaves every property of the handle as it was.
C1_RemoveWithoutIdIsRejected ==
  [][(Handler(ev') = "remove" /\ self._id = undefined) =>
       /\ \E e \in EventsOf(ev', "callback") : e.x = Some(NotMountedError)
       /\ ~Has(ev', "files.remove")
       /\ self' = self]_vars

\* C2: when the store answers a remove request with success, the handle has,
\* once the callback has run, no _id, no payload (self.data), no cached
\* collection and no collectionName.
C2_RemoveSuccessClearsIdPayloadStore ==
  [][(/\ Handler(ev') = "files.remove.reply" /\ ev'[1].x = undefined
      /\ self._id # undefined /\ Truthy(ResolvedStore(self))) =>
       /\ Has(ev', "callback")
       /\ self'._id = undefined
       /\ self'.data = undefined
       /\ self'.collection = undefined
       /\ self'.collectionName = undefined]_vars

\* C3: when the store answers a remove request with an error, the callback
\* is called once with that very error, no further request is issued, and the
\* handle is as it was before the answer; the remove() call itself changes
\* neither _id, payload, collectionName nor the store the handle resolves to.
C3_RemoveErrorPropagatesUnchanged ==
  [][/\ (Handler(ev') = "files.remove.reply" /\ ev'[1].x # undefined) =>
          /\ Cardinality(At(ev', "callback")) = 1
          /\ \A e \in EventsOf(ev', "callback") : e.x = ev'[1].x /\ e.call = ev'[1].call
          /\ calls'[ev'[1].call].err = ev'[1].x
          /\ ~Has(ev', "files.remove")
          /\ pending' \subseteq pending
          /\ self' = self
     /\ (Handler(ev') = "remove" /\ Has(ev', "files.remove")) =>
          /\ self'._id = self._id
          /\ self'.data = self.data
          /\ self'.collectionName = self.collectionName
          /\ ResolvedStore(self') = ResolvedStore(self)
          /\ Truthy(ResolvedStore(self'))]_vars

C3_Witness ==
  /\ Handler(ev) = "files.remove.reply"
  /\ ev[1].x = Some("E_STORE")
  /\ self._id = Some("f1")
  /\ self.data # undefined
  /\ Truthy(ResolvedStore(self))

\* C4 as stated: whenever remove() issues a files.remove request, it has
\* told the temporary store to delete the handle's chunks earlier in the same
\* call, on the client as on the server.
C4_ChunksDiscardedBeforeEveryRemove ==
  \A i \in At(ev, "files.remove") : \E j \in At(ev, "deleteChunks") : j < i

\* C4 amended: on the server, whenever remove() issues a files.remove
\* request it has told the temporary store to delete the handle's chunks
\* earlier in the same call; on the client remove() never tells it to.
C4_ChunksDiscardedBeforeRemoveOnServer ==
  /\ isServer => \A i \in At(ev, "files.remove") :
                   \E j \in At(ev, "deleteChunks") : j < i /\ ev[j].call = ev[i].call
  /\ ~isServer => ~Has(ev, "deleteChunks")

C4_Witness == isServer /\ Handler(ev) = "remove" /\ Has(ev, "files.remove")

-----------------------------------------------------------------------------
(* attachData *)

\* C5: every attachData call has called its callback exactly once as soon as
\* it is not waiting for the URL's metadata any more, and not at all before:
\* never twice, and never zero times once the call is over.
C5_AttachDataCallsBackOnce ==
  \A c \in DOMAIN calls :
    calls[c].op = "attachData" =>
      calls[c].cbs = IF \E req \in pending : req.call = c THEN 0 ELSE 1

\* a call for a URL whose metadata could not be fetched is over
C5_Witness ==
  \E c \in DOMAIN calls :
    /\ calls[c].op = "attachData"
    /\ calls[c].err = Some("E_HEAD")
    /\ calls[c].cbs = 1
    /\ \A req \in pending : req.call # c

\* C6: when '_cfs_getUrlInfo' fails, the callback gets that error and the
\* handle (payload and type included) is as it was; starting the call for a
\* URL changed nothing of the handle either.
C6_UrlFailureLeavesHandle ==
  [][/\ (Handler(ev') = "getUrlInfo.reply" /\ ev'[1].x # undefined) =>
          /\ \E e \in EventsOf(ev', "callback") : e.x = ev'[1].x /\ e.call = ev'[1].call
          /\ self'.data = self.data
          /\ self'.type = self.type
          /\ self' = self
     /\ (Handler(ev') = "attachData" /\ Has(ev', "Meteor.call")) =>
          /\ self'.data = self.data
          /\ self'.type = self.type]_vars

C6_Witness ==
  /\ Handler(ev) = "getUrlInfo.reply"
  /\ ev[1].x = Some("E_HEAD")
  /\ Has(ev, "callback")

-----------------------------------------------------------------------------
(* getFileRecord *)

\* C7: getFileRecord on a transform-created handle inside a reactive
\* computation issues no query and changes nothing of the handle; in every
\* other case in which the handle resolves to a store it issues findOne on
\* that store with the handle's _id.
C7_RefreshSkipsOnlyWhenReactive ==
  [][Handler(ev') = "getFileRecord" =>
       IF self.createdByTransform /\ DepsActive
       THEN ~Has(ev', "findOne") /\ self' = self
       ELSE Truthy(ResolvedStore(self)) =>
              \E e \in EventsOf(ev', "findOne") :
                 e.coll = ResolvedStore(self) /\ e.x = self._id]_vars

\* a transform-created handle was refreshed outside a reactive computation
C7_Witness ==
  /\ Handler(ev) = "getFileRecord"
  /\ self.createdByTransform
  /\ ~DepsActive
  /\ Has(ev, "findOne")

\* the record the store holds for the handle's _id, if any
StoredRecord(s, fs) ==
  IF s._id # undefined /\ Val(s._id) \in DOMAIN fs THEN fs[Val(s._id)] ELSE undefined

C8_WitnessMiss ==
  /\ Handler(ev) = "getFileRecord"
  /\ Has(ev, "findOne")
  /\ ret.v = EmptyObject
  /\ self.type # undefined

-----------------------------------------------------------------------------
(* The accessors applied to handles and records of every shape *)

\* the copies maps: any stores, each entry empty or not
CopiesMaps ==
  UNION {[D -> {EmptyEntry, JpegEntry}] : D \in SUBSET StoreNames}

\* the records the store may hold for "f1": any upload progress up to
\* MaxChunks without copies, or an uploaded file with any copies map
AccessorRecords ==
  {[NewRecord EXCEPT !.chunkCount = Some(p[1]), !.chunkSum = Some(p[2])] :
     p \in {q \in (0..MaxChunks) \X (0..MaxChunks) : q[1] <= q[2]}}
  \cup {[NewRecord EXCEPT !.chunkCount = Some(1), !.copies = Some(m)] : m \in CopiesMaps}

\* the names a record may carry
Names == {<<"a", ".", "b", ".", "C">>, <<"R">>, <<"x", ".">>}

\* records of other names, types and copies
ContentRecords ==
  {[NewRecord EXCEPT !.name = Some(n)] : n \in Names}
  \cup {[NewRecord EXCEPT !.type = ty, !.copies = Some([s \in {"thumb"} |-> e])] :
          ty \in {undefined, Some(NumberType), Some("text/video/"), Some("audio/mp3")},
          e \in {Mp4Entry, KeyEntry, EmptyEntry}}

\* what a handle knows locally before the accessor runs: nothing, or an
\* earlier snapshot of the record
LocalSnapshots ==
  {Detached,
   [Detached EXCEPT !.chunkCount = Some(0), !.chunkSum = Some(1),
                    !.copies = Some([s \in {"thumb"} |-> JpegEntry])]}

\* the handles a caller constructed
AccessorHandles ==
  {FSFile([l EXCEPT !._id = r._id, !.collectionName = r.collectionName], FALSE) :
     l \in LocalSnapshots, r \in Refs}

InitAccessors ==
  /\ \E rec \in AccessorRecords \cup ContentRecords :
       /\ files = [i \in Ids |-> IF i = "f1" THEN Some(rec) ELSE undefined]
       /\ self \in AccessorHandles \cup {TransformHandle(rec)}
  /\ isServer = FALSE
  /\ DepsActive \in BOOLEAN
  /\ pending = {}
  /\ calls = <<>>
  /\ ev = <<>>
  /\ ret = NoRet

UploadProgress ==
  /\ LET r == uploadProgress(self, DepsActive, files)
     IN /\ self' = r.self
        /\ ev' = <<Event("uploadProgress", 0, undefined, self._id)>> \o r.ev
        /\ ret' = [op |-> "uploadProgress", v |-> r.ret]
  /\ UNCHANGED <<files, isServer, DepsActive, pending, calls>>

IsUploaded ==
  /\ LET r == isUploaded(self, DepsActive, files)
     IN /\ self' = r.self
        /\ ev' = <<Event("isUploaded", 0, undefined, self._id)>> \o r.ev
        /\ ret' = [op |-> "isUploaded", v |-> r.ret]
  /\ UNCHANGED <<files, isServer, DepsActive, pending, calls>>

HasCopy ==
  /\ \E storeName \in {undefined} \cup {Some(x) : x \in StoreNames},
        optimistic \in {undefined, Some(TRUE), Some(FALSE)} :
       LET r == hasCopy(self, DepsActive, files, storeName, optimistic)
       IN /\ self' = r.self
          /\ ev' = <<Event("hasCopy", 0, undefined, storeName)>> \o r.ev
          /\ ret' = [op |-> "hasCopy", v |-> r.ret,
                     storeName |-> storeName, optimistic |-> optimistic]
  /\ UNCHANGED <<files, isServer, DepsActive, pending, calls>>

GetExtension ==
  /\ LET r == getExtension(self, DepsActive, files)
     IN /\ self' = r.self
        /\ ev' = <<Event("getExtension", 0, undefined, self._id)>> \o r.ev
        /\ ret' = [op |-> "getExtension", v |-> r.ret, threw |-> r.threw]
  /\ UNCHANGED <<files, isServer, DepsActive, pending, calls>>

GetCopyInfo ==
  /\ \E storeName \in {undefined} \cup {Some(x) : x \in StoreNames} :
       LET r == getCopyInfo(self, DepsActive, files, storeName)
       IN /\ self' = r.self
          /\ ev' = <<Event("getCopyInfo", 0, undefined, storeName)>> \o r.ev
          /\ ret' = [op |-> "getCopyInfo", v |-> r.ret, threw |-> r.threw,
                     isNull |-> r.isNull, storeName |-> storeName]
  /\ UNCHANGED <<files, isServer, DepsActive, pending, calls>>

\* isImage, isVideo or isAudio, with or without options.store
IsContentType ==
  /\ \E store \in {undefined} \cup {Some(x) : x \in StoreNames},
        which \in {"image/", "video/", "audio/"} :
       LET r == CASE which = "image/" -> isImage(self, DepsActive, files, store)
                  [] which = "video/" -> isVideo(self, DepsActive, files, store)
                  [] which = "audio/" -> isAudio(self, DepsActive, files, store)
       IN /\ self' = r.self
          /\ ev' = <<Event("isContentType", 0, undefined, store)>> \o r.ev
          /\ ret' = [op |-> "isContentType", v |-> r.ret,
                     storeName |-> store, startOfType |-> which]
  /\ UNCHANGED <<files, isServer, DepsActive, pending, calls>>

NextAccessors ==
  \/ UploadProgress
  \/ IsUploaded
  \/ HasCopy
  \/ GetExtension
  \/ GetCopyInfo
  \/ IsContentType
  \/ ChunkStored
  \/ CopyStored
  \/ DepsToggle

SpecAccessors == InitAccessors /\ [][NextAccessors]_vars

-----------------------------------------------------------------------------
(* update and remove on one handle *)

\* update(modifier, callback) or update(modifier)
Update ==
  /\ Len(calls) < MaxCalls
  /\ \E modifier \in Modifiers, hasCallback \in BOOLEAN :
       LET c == Len(calls) + 1
           r == update(self, c)
       IN /\ self' = r.self
          /\ ev' = <<Event("update", c, undefined, self._id)>> \o r.ev
          /\ pending' = pending \cup
               Requests(r.ev, Some([modifier |-> modifier, hasCallback |-> hasCallback]))
          /\ calls' = Append(calls, Started("update", c, r.ev))
  /\ ret' = NoRet
  /\ UNCHANGED <<files, isServer, DepsActive>>

\* the Record Store answers an update request: an error, or the number of
\* records it changed (the one with that _id, if there is one)
UpdateDone ==
  \E req \in pending :
    /\ req.op = "files.update"
    /\ \E err \in {undefined} \cup {Some(x) : x \in StoreErrors} :
         LET hit == err = undefined /\ findOne(files, req.id) # undefined
             count == IF hit THEN 1 ELSE 0
             fs == IF hit
                   THEN [files EXCEPT ![Val(req.id)] =
                           Some(applyModifier(Val(@), Val(req.data).modifier))]
                   ELSE files
             r == updateCallback(self, DepsActive, fs, isServer, req.call, err, count,
                                 Val(req.data).hasCallback)
         IN /\ self' = r.self
            /\ ev' = <<Event("files.update.reply", req.call, req.coll, err)>> \o r.ev
            /\ pending' = (pending \ {req}) \cup Requests(r.ev, undefined)
            /\ calls' = Completed(calls, req.call, r.ev)
            /\ files' = fs
            /\ ret' = [op |-> "files.update.reply", v |-> undefined, count |-> count,
                       id |-> req.id, hasCallback |-> Val(req.data).hasCallback]
    /\ UNCHANGED <<isServer, DepsActive>>

NextMutate ==
  \/ Update
  \/ UpdateDone
  \/ Remove
  \/ RemoveDone
  \/ GetFileRecord
  \/ IsUploaded
  \/ DepsToggle

SpecMutate == Init /\ [][NextMutate]_vars

-----------------------------------------------------------------------------
(* hasCopy, uploadProgress, isUploaded *)

\* C9: hasCopy(storeName, optimistic) answers, for the copies map the handle
\* has after the refresh: the optimistic flag (false when omitted) when the
\* map is absent or empty; otherwise whether the map has a non-empty entry
\* for storeName, whatever the flag.
C9_HasCopyOptimisticOnlyWithoutCopies ==
  ret.op = "hasCopy" =>
    LET known == self.copies # undefined /\ DOMAIN Val(self.copies) # {}
    IN ret.v = IF ~known
               THEN ret.optimistic = Some(TRUE)
               ELSE /\ ret.storeName # undefined
                    /\ Val(ret.storeName) \in DOMAIN Val(self.copies)
                    /\ Val(self.copies)[Val(ret.storeName)] # EmptyEntry

\* copies are known, the store asked for has none, the caller is optimistic
C9_Witness ==
  /\ ret.op = "hasCopy"
  /\ ret.optimistic = Some(TRUE)
  /\ ret.storeName = Some("orig")
  /\ self.copies = Some([s \in {"thumb"} |-> JpegEntry])
  /\ ret.v = FALSE

\* the handle resolves to a store that holds a record for its _id with
\* 0 <= chunkCount <= chunkSum and chunkSum > 0
HasProgressRecord ==
  /\ Truthy(ResolvedStore(self))
  /\ StoredRecord(self, files) # undefined
  /\ LET rec == Val(StoredRecord(self, files))
     IN /\ rec.chunkCount # undefined /\ rec.chunkSum # undefined
        /\ 0 <= Val(rec.chunkCount) /\ Val(rec.chunkCount) <= Val(rec.chunkSum)
        /\ Val(rec.chunkSum) > 0

\* n is chunkCount / chunkSum * 100 of the stored record rounded to the
\* nearest integer, a half upwards
IsRoundedProgress(n) ==
  LET rec == Val(StoredRecord(self, files))
      d == 2 * (n * Val(rec.chunkSum) - 100 * Val(rec.chunkCount))
  IN -Val(rec.chunkSum) < d /\ d <= Val(rec.chunkSum)

\* the answers of uploadProgress and isUploaded are those of the stored record
AnswersFromStoredRecord ==
  /\ ret.op = "uploadProgress" =>
       /\ ret.v # undefined
       /\ Val(ret.v).kind = "number"
       /\ IsRoundedProgress(Val(ret.v).n)
  /\ ret.op = "isUploaded" =>
       LET rec == Val(StoredRecord(self, files))
       IN ret.v = (Val(rec.chunkCount) = Val(rec.chunkSum))

\* C10 as stated: on every mounted handle whose stored record has
\* 0 <= chunkCount <= chunkSum, chunkSum > 0, uploadProgress() is
\* round(chunkCount / chunkSum * 100) and isUploaded() is chunkCount ==
\* chunkSum, of the record as it is in the store at the time of the call.
C10_ProgressFromStoredRecord ==
  (ret.op \in {"uploadProgress", "isUploaded"} /\ HasProgressRecord) =>
     AnswersFromStoredRecord

\* C10 amended: the same, for a call that pulls the record, that is unless
\* the handle is transform-created and a reactive computation is active (then
\* both answers are computed from the handle's own chunkCount and chunkSum).
C10_ProgressFromStoredRecordWhenPulled ==
  (/\ ret.op \in {"uploadProgress", "isUploaded"}
   /\ HasProgressRecord
   /\ ~(self.createdByTransform /\ DepsActive)) =>
     AnswersFromStoredRecord

\* one chunk of eight: 12.5 is rounded to 13
C10_Witness ==
  /\ ret.op = "uploadProgress"
  /\ HasProgressRecord
  /\ ~(self.createdByTransform /\ DepsActive)
  /\ Val(StoredRecord(self, files)).chunkCount = Some(1)
  /\ Val(StoredRecord(self, files)).chunkSum = Some(8)
  /\ ret.v = Some(Num("number", 13))

-----------------------------------------------------------------------------
(* C11 *)

\* the part of a name after its last ".", lower-cased; the empty string when
\* the name is absent or has no "."
ExtensionOf(name) ==
  IF name = undefined \/ \A i \in DOMAIN Val(name) : Val(name)[i] # "." THEN <<>>
  ELSE LET n == Val(name)
           k == CHOOSE i \in DOMAIN n :
                  n[i] = "." /\ \A j \in (i + 1)..Len(n) : n[j] # "."
       IN [i \in 1..(Len(n) - k) |-> lowerChar(n[k + i])]

\* C11: getExtension() never raises; it returns the lower-cased substring
\* after the last "." of name, and the empty string when name has no "." or
\* is absent (a detached handle, a refresh miss).
C11_GetExtensionNeverRaises ==
  ret.op = "getExtension" =>
     /\ ~ret.threw
     /\ ret.v = Some(ExtensionOf(self.name))

-----------------------------------------------------------------------------
(* C12 *)

\* type is a string that begins with prefix
StartsWith(type, prefix) ==
  /\ type # undefined
  /\ isString(Val(type))
  /\ LET str == CharsOf(Val(type))
         pre == CharsOf(prefix)
     IN Len(pre) <= Len(str) /\ \A i \in DOMAIN pre : str[i] = pre[i]

\* the handle knows a non-empty copies map with a non-empty entry for store
StoreHasCopy(s, store) ==
  /\ store # undefined
  /\ s.copies # undefined
  /\ Val(store) \in DOMAIN Val(s.copies)
  /\ Val(s.copies)[Val(store)] # EmptyEntry

\* C12: isImage/isVideo/isAudio answer whether the type of the named store's
\* copy begins with image/, video/ or audio/ when a store is named and has a
\* copy; otherwise, and without a store name, whether the type of the handle's
\* record (the original) does; an absent type or one that is no string gives
\* false.
C12_ContentTypeOfCopyElseOriginal ==
  ret.op = "isContentType" =>
    ret.v = IF StoreHasCopy(self, ret.storeName)
            THEN StartsWith(Val(self.copies)[Val(ret.storeName)].type, ret.startOfType)
            ELSE StartsWith(self.type, ret.startOfType)

\* the copy in "thumb" is a video, the original is audio
C12_Witness ==
  /\ ret.op = "isContentType"
  /\ ret.storeName = Some("thumb")
  /\ ret.startOfType = "video/"
  /\ self.type = Some("audio/mp3")
  /\ StoreHasCopy(self, ret.storeName)
  /\ Val(self.copies)["thumb"] = Mp4Entry
  /\ ret.v = TRUE

-----------------------------------------------------------------------------
(* C13 *)

\* C13: getCopyInfo(storeName) never raises, whether the handle is detached,
\* knows no copies map or knows one without that store; it returns the entry
\* copies[storeName] when there is one and null otherwise.
C13_GetCopyInfoEntryOrNull ==
  ret.op = "getCopyInfo" =>
    /\ ~ret.threw
    /\ IF /\ self.copies # undefined
          /\ ret.storeName # undefined
          /\ Val(ret.storeName) \in DOMAIN Val(self.copies)
       THEN ~ret.isNull /\ ret.v = Some(Val(self.copies)[Val(ret.storeName)])
       ELSE ret.isNull /\ ret.v = undefined

\* a detached handle asked for the copy in "thumb"
C13_Witness ==
  /\ ret.op = "getCopyInfo"
  /\ ret.storeName = Some("thumb")
  /\ self._id = undefined
  /\ self.copies = undefined
  /\ ret.isNull

-----------------------------------------------------------------------------
(* C14 *)

\* C14: update() on a handle without _id or without a resolvable store issues
\* no files.update request and changes no property of the handle; on a
\* handle with both it issues exactly one files.update request, keyed by the
\* handle's _id.
C14_UpdateOnlyWhenMounted ==
  [][Handler(ev') = "update" =>
       IF self._id = undefined \/ ~Truthy(ResolvedStore(self))
       THEN ~Has(ev', "files.update") /\ self' = self
       ELSE /\ Cardinality(At(ev', "files.update")) = 1
            /\ \A e \in EventsOf(ev', "files.update") : e.x = self._id]_vars

-----------------------------------------------------------------------------
(* C15 *)

\* the store has answered an update request of a caller who passed a
\* callback: no error, at least one record changed, and the handle is not a
\* transform-created one inside a reactive computation
UpdateSucceeded ==
  /\ Handler(ev') = "files.update.reply"
  /\ ev'[1].x = undefined
  /\ ret'.count > 0
  /\ ret'.hasCallback
  /\ ~controlledByDeps(self, DepsActive)

\* the record is pulled before the caller's callback runs, and the handle's
\* record properties are then those of the updated record
RefreshedBeforeCallback ==
  /\ \A i \in At(ev', "callback") : \E j \in At(ev', "findOne") : j < i
  /\ Has(ev', "callback")
  /\ \A f \in RecordFields : self'[f] = Val(findOne(files', ret'.id))[f]

\* C15 as stated: after an update succeeded with at least one record
\* changed, on the client and on the server alike, the handle is refreshed
\* from the store before the caller's callback is invoked, unless it is a
\* transform-created handle inside a reactive computation.
C15_UpdateRefreshesBeforeCallback ==
  [][UpdateSucceeded => RefreshedBeforeCallback]_vars

\* C15 amended: the same on the client only; on the server the callback is
\* invoked without a refresh.
C15_UpdateRefreshesBeforeCallbackOnClient ==
  [][UpdateSucceeded =>
       IF isServer THEN Has(ev', "callback") /\ ~Has(ev', "findOne") /\ self' = self
       ELSE RefreshedBeforeCallback]_vars

\* on the client the update of the type has reached the handle
C15_Witness ==
  /\ Handler(ev) = "files.update.reply"
  /\ ev[1].x = undefined
  /\ ~isServer
  /\ ret.count > 0
  /\ ret.hasCallback
  /\ ~controlledByDeps(self, DepsActive)
  /\ Has(ev, "findOne")
  /\ Has(ev, "callback")
  /\ self.type = Some("image/png")

-----------------------------------------------------------------------------
(* C16 *)

Accessors ==
  {"uploadProgress", "isUploaded", "getExtension", "hasCopy", "getCopyInfo",
   "isContentType"}

\* the handle has an _id and a store, and is not a transform-created handle
\* inside a reactive computation
MountedNonReactive ==
  /\ self._id # undefined
  /\ Truthy(ResolvedStore(self))
  /\ ~controlledByDeps(self, DepsActive)

\* the accessor that ran last queried the store, and every property the
\* stored record has (if there is a record) is the record's on the handle
AnsweredFromStore ==
  /\ Has(ev, "findOne")
  /\ StoredRecord(self, files) # undefined =>
       \A f \in RecordFields :
          Val(StoredRecord(self, files))[f] # undefined =>
             self[f] = Val(StoredRecord(self, files))[f]

\* C16: every accessor (uploadProgress, isUploaded, getExtension, hasCopy,
\* getCopyInfo, and isImage/isVideo/isAudio with or without a store name)
\* refreshes the handle before it reads it, so that on a mounted handle
\* outside a reactive computation it answers from the store's current record.
C16_EveryAccessorRefreshesFirst ==
  (ret.op \in Accessors /\ MountedNonReactive) => AnsweredFromStore

-----------------------------------------------------------------------------
(* C17 *)

\* the attachData calls that called back without an error in the handler
\* that ran in this step
AttachedNow ==
  {c \in DOMAIN calls' :
     /\ calls'[c].op = "attachData"
     /\ \E e \in EventsOf(ev', "callback") : e.call = c /\ e.x = undefined}

\* the data call c was given: the argument of the attachData that ran, or
\* the data of the request whose answer arrived
SourceOf(c) ==
  IF Handler(ev') = "attachData" THEN Val(ev'[1].x)
  ELSE Val((CHOOSE req \in pending : req.call = c).data).tag

\* the types a call with that data can produce
TypesOf(tag) ==
  CASE tag = "file" -> {DataFile.type}
    [] tag = "blob" -> {DataBlob.type}
    [] tag \in {"http", "https"} -> {info.type : info \in UrlInfos}
    [] OTHER -> OptionTypes

\* C17: when attachData calls on one handle overlap (one of them waiting for
\* the URL's metadata), the handle's payload and type are, after each
\* successful completion and so after the last, both those of the call that
\* just completed: the payload is made of that call's data, the type is the
\* payload's type, and it is a type that call produces.
C17_PayloadAndTypeOfLastCompletion ==
  [][\A c \in AttachedNow :
       /\ self'.data # undefined
       /\ Val(self'.data).src = SourceOf(c)
       /\ self'.type = Val(self'.data).type
       /\ self'.type \in TypesOf(SourceOf(c))]_vars

\* two attachData calls, the second completed while the first waited for its
\* URL's metadata; the first's answer has now arrived and both have succeeded
C17_Witness ==
  /\ Handler(ev) = "getUrlInfo.reply"
  /\ ev[1].call = 1
  /\ Len(calls) = 2
  /\ \A c \in DOMAIN calls :
       calls[c].op = "attachData" /\ calls[c].cbs = 1 /\ calls[c].err = undefined
  /\ pending = {}
  /\ self.data # undefined
  /\ Val(self.data).src \in {"http", "https"}
  /\ self.type = Some("image/gif")

-----------------------------------------------------------------------------
(* C18 *)

\* the store has answered some remove() of the handle with success
Removed ==
  \E c \in DOMAIN calls :
    calls[c].op = "remove" /\ calls[c].cbs > 0 /\ calls[c].err = undefined

\* the requests to the Record Store
StoreRequests == {"files.remove", "files.update", "findOne"}

\* C18: once a remove() has completed successfully the handle stays
\* detached whatever is called on it afterwards: _id stays absent, the handle
\* resolves to no store, a later remove() calls back with the not-mounted
\* error, and no later remove(), update(), refresh or accessor issues a
\* request to the Record Store.
C18_StaysDetachedAfterRemove ==
  [][Removed =>
       /\ self'._id = undefined
       /\ ~Truthy(ResolvedStore(self'))
       /\ \A k \in StoreRequests : ~Has(ev', k)
       /\ Handler(ev') = "remove" =>
            \E e \in EventsOf(ev', "callback") : e.x = Some(NotMountedError)]_vars

\* a remove() called after an earlier one had succeeded
C18_Witness ==
  /\ Removed
  /\ Handler(ev) = "remove"
  /\ Len(calls) = 2
  /\ calls[1].op = "remove" /\ calls[1].err = undefined /\ calls[1].cbs = 1
  /\ calls[2].err = Some(NotMountedError)
  /\ self._id = undefined

-----------------------------------------------------------------------------
(* C19 *)

Issues == {"update", "remove"}
Replies == {"files.update.reply", "files.remove.reply"}

\* the callbacks the completion of a call owes its caller: one, or none for
\* an update() called without a callback
CallbacksOwed ==
  IF Handler(ev') = "files.update.reply" /\ ~ret'.hasCallback THEN 0 ELSE 1

\* C19: however update() and remove() calls on a mounted handle and the
\* answers of the store interleave (two remove() calls issued before either
\* answer, an update answered after a remove), every caller's callback is
\* invoked exactly once, when the answer to its call arrives, neither before
\* nor again; and after a successful answer to a remove no later answer gives
\* the handle an _id or a store again.
C19_CallbackOncePerCallNoRemount ==
  [][/\ (Handler(ev') \in Issues /\ self._id # undefined /\ Truthy(ResolvedStore(self))) =>
          /\ calls'[ev'[1].call].cbs = 0
          /\ Cardinality({req \in pending' : req.call = ev'[1].call}) = 1
     /\ Handler(ev') \in Replies =>
          /\ calls[ev'[1].call].cbs = 0
          /\ calls'[ev'[1].call].cbs = CallbacksOwed
          /\ \A e \in EventsOf(ev', "callback") : e.call = ev'[1].call
          /\ ~\E req \in pending' : req.call = ev'[1].call
     /\ \A c \in DOMAIN calls :
          calls'[c].cbs # calls[c].cbs => Handler(ev') \in Replies /\ c = ev'[1].call
     /\ Removed => self'._id = undefined /\ ~Truthy(ResolvedStore(self'))]_vars

\* an update and a remove were both issued on the mounted handle; the remove
\* was answered first, and the update's answer has now arrived
C19_Witness ==
  /\ Handler(ev) = "files.update.reply"
  /\ Len(calls) = 2
  /\ calls[1].op = "update" /\ calls[1].cbs = 1
  /\ calls[2].op = "remove" /\ calls[2].cbs = 1 /\ calls[2].err = undefined
  /\ pending = {}
  /\ self._id = undefined

-----------------------------------------------------------------------------
(* C20 *)

\* C20: isUploaded() answers true only when the handle has both chunkCount
\* and chunkSum and they are equal; on a handle that knows neither (a
\* detached handle, a handle whose record is not found) it does not report
\* the upload as complete.
C20_UploadedOnlyWithKnownCounters ==
  (ret.op = "isUploaded" /\ ret.v) =>
     /\ self.chunkCount # undefined
     /\ self.chunkSum # undefined
     /\ Val(self.chunkCount) = Val(self.chunkSum)

====
